---- MODULE Spec2Model ----
(***************************************************************************)
(* PyNeon, src/pyneon/stream.py: NeonStream and its subclasses.  A stream  *)
(* object owns a table (a pandas DataFrame indexed by integer nanosecond   *)
(* timestamps) and keeps attributes derived from it.  crop and interpolate *)
(* delegate to pyneon.preprocess and, with inplace=True, replace the owned *)
(* table and recompute the attributes with _get_attributes.                *)
(*                                                                         *)
(* Python values: None is the empty tuple and any other optional value x   *)
(* is <<x>>; an object is a function from the names of the attributes that *)
(* have been assigned to their values; a DataFrame lives in the heap and   *)
(* is held by reference; the float n / 1e9 is Seconds(n).                  *)
(***************************************************************************)
EXTENDS Integers, Sequences, FiniteSets, TLC

VARIABLES self, heap, arg, last, failed, gridIn, gridOut

vars == <<self, heap, arg, last, failed, gridIn, gridOut>>

-----------------------------------------------------------------------------
(* Bounds of the model *)

\* input timestamps are 0, Tick, ..., MaxTick * Tick
MaxTick == 3

\* the pure grid function is tried on the frequencies 1..MaxFreq (and the
\* nominal frequencies of the stream classes)
MaxFreq == 8

\* the pure grid function is tried on spans of 1..MaxSpan quarter seconds
MaxSpan == 3

-----------------------------------------------------------------------------
(* Program constants *)

NsPerSecond == 1000000000

GazeNominal == 200

EyeStatesNominal == 200

IMUNominal == 110

-----------------------------------------------------------------------------
(* Python values *)

None == << >>

Some(x) == <<x>>

IsNone(o) == o = << >>

Val(o) == o[1]

NoAttrs == [a \in {} |-> 0]

SetAttr(obj, name, v) ==
  [a \in (DOMAIN obj) \cup {name} |-> IF a = name THEN v ELSE obj[a]]

\* the float ns / 1e9
Seconds(ns) == [ns |-> ns]

\* Python's n / d for an int n and a float d: ZeroDivisionError is the
\* caller's case d = Seconds(0); otherwise the exact quotient
TrueDiv(n, d) == [rows |-> n, per |-> d]

\* Python's round(a / b) for positive integers: the nearest integer, a tie
\* going to the even one
RoundHalfEven(a, b) ==
  LET q == a \div b
      r == a % b
  IN IF 2 * r < b THEN q
     ELSE IF 2 * r > b THEN q + 1
     ELSE IF q % 2 = 0 THEN q ELSE q + 1

RECURSIVE SortedSeq(_)
SortedSeq(S) ==
  IF S = {} THEN << >>
  ELSE LET m == CHOOSE x \in S : \A y \in S : x <= y
       IN <<m>> \o SortedSeq(S \ {m})

-----------------------------------------------------------------------------
(* Tables (DataFrames) and the heap that holds them *)

TimeCol == "time [s]"

NoColumns == [c \in {} |-> << >>]

Table(index, columns) == [index |-> index, columns |-> columns]

SetCol(t, name, col) ==
  Table(t.index,
        [c \in (DOMAIN t.columns) \cup {name} |->
            IF c = name THEN col ELSE t.columns[c]])

Refs == 1..4

NoHeap == [r \in {} |-> 0]

Alloc(h) ==
  CHOOSE r \in Refs \ DOMAIN h : \A q \in Refs \ DOMAIN h : r <= q

Store(h, r, t) ==
  [q \in (DOMAIN h) \cup {r} |-> IF q = r THEN t ELSE h[q]]

\* what the garbage collector leaves: the tables some root still refers to
Collect(h, roots) == [q \in (DOMAIN h) \cap roots |-> h[q]]

OptSet(o) == IF IsNone(o) THEN {} ELSE {Val(o)}

-----------------------------------------------------------------------------
(* pyneon.preprocess, as the Stream calls it *)

Result(err, table) == [err |-> err, table |-> table]

NoTable == Table(<< >>, NoColumns)

\* relative seconds to nanoseconds: round(t * 1e9)
RoundNs(t) == t.ns

KeepRows(keys, col, lo, hi) ==
  LET keep == {i \in 1..Len(keys) : lo <= keys[i] /\ keys[i] <= hi}
      pos  == SortedSeq(keep)
  IN [j \in 1..Len(pos) |-> col[pos[j]]]

PreprocessCrop(t, tmin, tmax, by) ==
  LET keys == t.index
      n    == Len(keys)
      base == keys[1]
      lo   == IF IsNone(tmin) THEN keys[1]
              ELSE IF by = "time" THEN base + RoundNs(Val(tmin))
              ELSE Val(tmin)
      hi   == IF IsNone(tmax) THEN keys[n]
              ELSE IF by = "time" THEN base + RoundNs(Val(tmax))
              ELSE Val(tmax)
  IN IF n = 0 THEN Result("EmptyResult", NoTable)
     ELSE IF lo > hi THEN Result("InvalidRange", NoTable)
     ELSE LET idx == KeepRows(keys, keys, lo, hi)
          IN IF Len(idx) = 0 THEN Result("EmptyResult", NoTable)
             ELSE Result("ok",
                    Table(idx, [c \in DOMAIN t.columns |->
                                  KeepRows(keys, t.columns[c], lo, hi)]))

\* linear interpolation v0 + (v1 - v0) * (x - t0) / (t1 - t0) of float
\* seconds; a column that advances one second per second is evaluated
\* without forming the product
Lerp(t0, v0, t1, v1, x) ==
  LET d  == t1 - t0
      dv == v1.ns - v0.ns
  IN IF dv = d THEN Seconds(v0.ns + (x - t0))
     ELSE Seconds(v0.ns + (dv * (x - t0)) \div d)

\* the row before the bracket of x: the last one at or before x that has a
\* successor
Bracket(keys, x) ==
  LET cand == {i \in 1..(Len(keys) - 1) : keys[i] <= x}
  IN CHOOSE i \in cand : \A j \in cand : j <= i

PreprocessInterpolate(new_ts, t) ==
  LET keys == t.index
      n    == Len(keys)
  IN IF n < 2 THEN Result("InsufficientData", NoTable)
     ELSE IF \E i \in 1..Len(new_ts) : new_ts[i] < keys[1] \/ new_ts[i] > keys[n]
     THEN Result("OutOfRange", NoTable)
     ELSE Result("ok",
            Table(new_ts,
              [c \in DOMAIN t.columns |->
                 [i \in 1..Len(new_ts) |->
                    LET b == Bracket(keys, new_ts[i])
                    IN Lerp(keys[b], t.columns[c][b],
                            keys[b + 1], t.columns[c][b + 1], new_ts[i])]]))

-----------------------------------------------------------------------------
(* NeonStream._get_attributes *)

Outcome(s, h, err) == [self |-> s, heap |-> h, err |-> err]

GetAttributes(s, h) ==
  LET t  == h[s.data]
      ts == t.index
      n  == Len(ts)
      s1 == SetAttr(SetAttr(s, "timestamps", ts), "ts", ts)
  IN IF n = 0 THEN Outcome(s1, h, "IndexError")
     ELSE
       LET first == ts[1]
           lst   == ts[n]
           times == [i \in 1..n |-> Seconds(ts[i] - first)]
           s2 == SetAttr(SetAttr(SetAttr(s1, "first_ts", first),
                                 "last_ts", lst), "times", times)
           h2 == Store(h, s.data, SetCol(t, TimeCol, times))
           duration == Seconds(times[n].ns - times[1].ns)
           s3 == SetAttr(s2, "duration", duration)
       IN IF duration = Seconds(0) THEN Outcome(s3, h2, "ZeroDivisionError")
          ELSE Outcome(SetAttr(s3, "sampling_freq_effective",
                               TrueDiv(n, duration)), h2, "ok")

-----------------------------------------------------------------------------
(* NeonStream.crop and NeonStream.interpolate *)

Returned(s, h, ret, err, grid) ==
  [self |-> s, heap |-> h, ret |-> ret, err |-> err, grid |-> grid]

\* crop that replaces the table and leaves the attributes as they were
CropMethod_NoRefresh(s, h, tmin, tmax, by, inplace) ==
  LET res == PreprocessCrop(h[s.data], tmin, tmax, by)
  IN IF res.err # "ok" THEN Returned(s, h, None, res.err, None)
     ELSE
       LET new_data == Alloc(h)
           h1 == Store(h, new_data, res.table)
       IN IF inplace
          THEN Returned(SetAttr(s, "data", new_data), h1, Some(new_data), "ok", None)
          ELSE Returned(s, h1, Some(new_data), "ok", None)

\* crop that replaces the table whatever inplace says
CropMethod_IgnoresInplace(s, h, tmin, tmax, by, inplace) ==
  LET res == PreprocessCrop(h[s.data], tmin, tmax, by)
  IN IF res.err # "ok" THEN Returned(s, h, None, res.err, None)
     ELSE
       LET new_data == Alloc(h)
           h1 == Store(h, new_data, res.table)
           g == GetAttributes(SetAttr(s, "data", new_data), h1)
       IN IF g.err # "ok"
          THEN Returned(g.self, g.heap, None, g.err, None)
          ELSE Returned(g.self, g.heap, Some(new_data), "ok", None)

\* crop that returns self.data where it should return new_data
CropMethod_ReturnsOwned(s, h, tmin, tmax, by, inplace) ==
  LET res == PreprocessCrop(h[s.data], tmin, tmax, by)
  IN IF res.err # "ok" THEN Returned(s, h, None, res.err, None)
     ELSE
       LET new_data == Alloc(h)
           h1 == Store(h, new_data, res.table)
       IN IF inplace
          THEN LET g == GetAttributes(SetAttr(s, "data", new_data), h1)
               IN IF g.err # "ok"
                  THEN Returned(g.self, g.heap, None, g.err, None)
                  ELSE Returned(g.self, g.heap, Some(new_data), "ok", None)
          ELSE Returned(s, h, Some(s.data), "ok", None)

CropMethod(s, h, tmin, tmax, by, inplace) ==
  LET res == PreprocessCrop(h[s.data], tmin, tmax, by)
  IN IF res.err # "ok" THEN Returned(s, h, None, res.err, None)
     ELSE
       LET new_data == Alloc(h)
           h1 == Store(h, new_data, res.table)
       IN IF inplace
          THEN LET g == GetAttributes(SetAttr(s, "data", new_data), h1)
               IN IF g.err # "ok"
                  THEN Returned(g.self, g.heap, None, g.err, None)
                  ELSE Returned(g.self, g.heap, Some(new_data), "ok", None)
          ELSE Returned(s, h1, Some(new_data), "ok", None)

\* the step rounded to the nearest integer where the code truncates
StepSize_Rounded(f) == RoundHalfEven(NsPerSecond, f)

\* int(1e9 / f) for a positive frequency f
StepSize(f) == NsPerSecond \div f

\* np.arange(start, stop, step, dtype=np.int64)
Arange(start, stop, step) ==
  LET n == IF stop > start THEN (stop - start + step - 1) \div step ELSE 0
  IN [i \in 1..n |-> start + (i - 1) * step]

\* a grid that runs up to and including last_ts
AutoGrid_Inclusive(first, lst, f) == Arange(first, lst + 1, StepSize(f))

AutoGrid(first, lst, f) == Arange(first, lst, StepSize(f))

InterpolateMethod(s, h, new_ts, inplace) ==
  LET auto == IsNone(new_ts)
      grid == AutoGrid(s.first_ts, s.last_ts, Val(s.sampling_freq_nominal))
      step == StepSize(Val(s.sampling_freq_nominal))
      ts   == IF auto THEN grid ELSE Val(new_ts)
      made == IF auto THEN Some(grid) ELSE None
  IN IF auto /\ IsNone(s.sampling_freq_nominal)
     THEN Returned(s, h, None, "TypeError", None)
     ELSE IF auto /\ Len(grid) = 0
     THEN Returned(s, h, None, "IndexError", made)
     ELSE IF auto /\ grid[1] # s.first_ts
     THEN Returned(s, h, None, "AssertionError", made)
     ELSE IF auto /\ \E i \in 1..(Len(grid) - 1) : grid[i + 1] - grid[i] # step
     THEN Returned(s, h, None, "AssertionError", made)
     ELSE
       LET res == PreprocessInterpolate(ts, h[s.data])
       IN IF res.err # "ok" THEN Returned(s, h, None, res.err, made)
          ELSE
            LET new_data == Alloc(h)
                h1 == Store(h, new_data, res.table)
            IN IF inplace
               THEN LET g == GetAttributes(SetAttr(s, "data", new_data), h1)
                    IN IF g.err # "ok"
                       THEN Returned(g.self, g.heap, None, g.err, made)
                       ELSE Returned(g.self, g.heap, Some(new_data), "ok", made)
               ELSE Returned(s, h1, Some(new_data), "ok", made)

-----------------------------------------------------------------------------
(* Constructors *)

\* NeonTabular.__init__(file): the loaded table and the path it came from
NeonTabularInit(data) ==
  SetAttr(SetAttr(NoAttrs, "file", Some("csv")), "data", data)

NeonStreamInit(data, h) == GetAttributes(NeonTabularInit(data), h)

\* DataFrame.astype: a new table with the same rows
AsType(s, h) ==
  LET copy == Alloc(h)
  IN Outcome(SetAttr(s, "data", copy), Store(h, copy, h[s.data]), "ok")

SubclassInit(data, h, nominal) ==
  LET g == NeonStreamInit(data, h)
  IN IF g.err # "ok" THEN g
     ELSE AsType(SetAttr(g.self, "sampling_freq_nominal", Some(nominal)), g.heap)

NeonGazeInit(data, h) == SubclassInit(data, h, GazeNominal)

NeonEyeStatesInit(data, h) == SubclassInit(data, h, EyeStatesNominal)

NeonIMUInit(data, h) == SubclassInit(data, h, IMUNominal)

\* a CustomStream that takes the gaze stream's nominal frequency
CustomStreamInit_GazeNominal(data, h) ==
  GetAttributes(
    SetAttr(SetAttr(SetAttr(NoAttrs, "file", None), "data", data),
            "sampling_freq_nominal", Some(GazeNominal)), h)

CustomStreamInit(data, h) ==
  GetAttributes(
    SetAttr(SetAttr(SetAttr(NoAttrs, "file", None), "data", data),
            "sampling_freq_nominal", None), h)

-----------------------------------------------------------------------------
(* Inputs *)

\* the sample period of the gaze stream
Tick == NsPerSecond \div GazeNominal

TsUniverse == {k * Tick : k \in 0..MaxTick}

\* every strictly increasing sequence of input timestamps
InputIndexes == {SortedSeq(S) : S \in SUBSET TsUniverse}

TimestampBounds == {None} \cup {Some(k) : k \in TsUniverse}

TimeBounds == {None} \cup {Some(Seconds(k)) : k \in TsUniverse}

NewTsInputs == {None} \cup {Some(idx) : idx \in InputIndexes}

GridFreqs == (1..MaxFreq) \cup {GazeNominal, EyeStatesNominal, IMUNominal}

GridInputs ==
  {[f |-> f, first |-> first, lst |-> first + n * (NsPerSecond \div 4)] :
     f \in GridFreqs, first \in {0, Tick}, n \in 1..MaxSpan}

-----------------------------------------------------------------------------
(* The state machine *)

Constructed == self # NoAttrs

\* the caller is between calls: it holds no outcome it has not looked at
Idle == last.op = "none"

Snapshot(s, t) == [self |-> s, table |-> t]

CallRecord(op, tmin, tmax, by, new_ts, inplace, pre, out) ==
  [op |-> op, tmin |-> tmin, tmax |-> tmax, by |-> by, new_ts |-> new_ts,
   inplace |-> inplace, pre |-> pre, ret |-> out.ret, err |-> out.err,
   grid |-> out.grid]

NoCall ==
  CallRecord("none", None, None, "timestamp", None, FALSE,
             Snapshot(NoAttrs, NoTable), Returned(NoAttrs, NoHeap, None, "ok", None))

Roots(s, a, ret) ==
  (IF s = NoAttrs THEN {} ELSE {s.data}) \cup OptSet(a) \cup OptSet(ret)

Init ==
  /\ self = NoAttrs
  /\ heap = NoHeap
  /\ arg = None
  /\ last = NoCall
  /\ failed = FALSE
  /\ gridIn = None
  /\ gridOut = None

\* the constructor's outcome: the object exists only if no exception left it
Built(op, idx, g, a) ==
  LET s == IF g.err = "ok" THEN g.self ELSE NoAttrs
  IN /\ self' = s
     /\ arg' = a
     /\ heap' = Collect(g.heap, Roots(s, a, None))
     /\ last' = CallRecord(op, None, None, "timestamp", None, FALSE,
                           Snapshot(NoAttrs, Table(idx, NoColumns)),
                           Returned(s, g.heap, None, g.err, None))
     /\ failed' = (g.err # "ok")
     /\ UNCHANGED <<gridIn, gridOut>>

ConstructGaze ==
  /\ ~Constructed /\ Idle /\ ~failed
  /\ \E idx \in InputIndexes :
       LET file == Alloc(heap)
       IN Built("NeonGaze", idx,
                NeonGazeInit(file, Store(heap, file, Table(idx, NoColumns))), arg)

ConstructEyeStates ==
  /\ ~Constructed /\ Idle /\ ~failed
  /\ \E idx \in InputIndexes :
       LET file == Alloc(heap)
       IN Built("NeonEyeStates", idx,
                NeonEyeStatesInit(file, Store(heap, file, Table(idx, NoColumns))), arg)

ConstructIMU ==
  /\ ~Constructed /\ Idle /\ ~failed
  /\ \E idx \in InputIndexes :
       LET file == Alloc(heap)
       IN Built("NeonIMU", idx,
                NeonIMUInit(file, Store(heap, file, Table(idx, NoColumns))), arg)

ConstructCustom ==
  /\ ~Constructed /\ Idle /\ ~failed
  /\ \E idx \in InputIndexes :
       LET data == Alloc(heap)
       IN Built("CustomStream", idx,
                CustomStreamInit(data, Store(heap, data, Table(idx, NoColumns))),
                Some(data))

Called(op, tmin, tmax, by, new_ts, inplace, out) ==
  /\ self' = out.self
  /\ heap' = Collect(out.heap, Roots(out.self, arg, out.ret))
  /\ last' = CallRecord(op, tmin, tmax, by, new_ts, inplace,
                        Snapshot(self, heap[self.data]), out)
  /\ failed' = (failed \/ out.err # "ok")
  /\ UNCHANGED <<arg, gridIn, gridOut>>

Crop ==
  /\ Constructed /\ Idle
  /\ \E by \in {"timestamp", "time"}, inplace \in BOOLEAN :
       \E tmin, tmax \in (IF by = "time" THEN TimeBounds ELSE TimestampBounds) :
         Called("crop", tmin, tmax, by, None, inplace,
                CropMethod(self, heap, tmin, tmax, by, inplace))

Interpolate ==
  /\ Constructed /\ Idle
  /\ \E new_ts \in NewTsInputs, inplace \in BOOLEAN :
       Called("interpolate", None, None, "timestamp", new_ts, inplace,
              InterpolateMethod(self, heap, new_ts, inplace))

\* the caller has seen the outcome of its call and drops the returned table
Resume ==
  /\ ~Idle
  /\ last' = NoCall
  /\ heap' = Collect(heap, Roots(self, arg, None))
  /\ UNCHANGED <<self, arg, failed, gridIn, gridOut>>

Next ==
  \/ ConstructGaze
  \/ ConstructEyeStates
  \/ ConstructIMU
  \/ ConstructCustom
  \/ Crop
  \/ Interpolate
  \/ Resume

Spec == Init /\ [][Next]_vars

-----------------------------------------------------------------------------
(* A caller that only resamples in place on the nominal grid, again and *)
(* again: each of its steps is taken sooner or later                     *)

AutoResample ==
  /\ Constructed /\ Idle
  /\ Called("interpolate", None, None, "timestamp", None, TRUE,
            InterpolateMethod(self, heap, None, TRUE))

NextRepeat ==
  \/ ConstructGaze
  \/ ConstructEyeStates
  \/ ConstructIMU
  \/ AutoResample
  \/ Resume

SpecRepeat ==
  Init /\ [][NextRepeat]_vars /\ WF_vars(AutoResample) /\ WF_vars(Resume)

-----------------------------------------------------------------------------
(* The grid of lines 133-134 as a function of its inputs *)

InitGrid ==
  /\ self = NoAttrs
  /\ heap = NoHeap
  /\ arg = None
  /\ last = NoCall
  /\ failed = FALSE
  /\ gridIn \in {Some(g) : g \in GridInputs}
  /\ gridOut = None

ApplyGrid ==
  /\ gridIn # None
  /\ gridOut = None
  /\ gridOut' = Some(AutoGrid(Val(gridIn).first, Val(gridIn).lst, Val(gridIn).f))
  /\ UNCHANGED <<self, heap, arg, last, failed, gridIn>>

NextGrid == ApplyGrid

SpecGrid == InitGrid /\ [][NextGrid]_vars

-----------------------------------------------------------------------------
(* What the outcome of the last call shows *)

IsCall == last.op \in {"crop", "interpolate"}

Owned == heap[self.data]

Before == last.pre.self

TableBefore == last.pre.table

\* crop or interpolate ran with inplace=True and raised
InplaceRaised == IsCall /\ last.inplace /\ last.err # "ok"

\* interpolate ran without new_ts
AutoCall == last.op = "interpolate" /\ IsNone(last.new_ts)

\* the attributes other than the table reference
Derived(s) == [a \in (DOMAIN s) \ {"data"} |-> s[a]]

InRange(keys, lo, hi) ==
  LET Keep(k) == lo <= k /\ k <= hi
  IN SelectSeq(keys, Keep)

\* C1: as long as no call has raised, the derived attributes describe the
\* owned table: timestamps are its keys, first_ts and last_ts its first and
\* last key, duration is (last_ts - first_ts) / 1e9 and
\* sampling_freq_effective is its row count divided by the duration.
AttributesCurrent ==
  (Constructed /\ ~failed) =>
    LET keys == Owned.index
        n    == Len(keys)
    IN /\ n >= 1
       /\ self.timestamps = keys
       /\ self.ts = keys
       /\ self.first_ts = keys[1]
       /\ self.last_ts = keys[n]
       /\ self.duration = Seconds(self.last_ts - self.first_ts)
       /\ self.sampling_freq_effective = TrueDiv(n, self.duration)

\* a mutating call has succeeded and the owned table has other keys than before
AttributesCurrentWitness ==
  /\ IsCall /\ last.inplace /\ last.err = "ok" /\ ~failed
  /\ Owned.index # TableBefore.index
  /\ self.last_ts # Before.last_ts

\* C2: a mutating call that raises leaves the stream with the table and the
\* attributes it had before the call.
AllOrNothing ==
  InplaceRaised => (self = Before /\ Owned = TableBefore)

\* C3: a call with inplace=False leaves the owned table and every attribute
\* as they were, whether it returns or raises.
CopyingCallChangesNothing ==
  (IsCall /\ ~last.inplace) => (self = Before /\ Owned = TableBefore)

\* a copying crop has returned a table with fewer rows than the owned one
CopyingCallWitness ==
  /\ last.op = "crop" /\ ~last.inplace /\ last.err = "ok"
  /\ Len(heap[Val(last.ret)].index) < Len(Owned.index)

\* C5: the grid interpolate generates for a stream with a nominal frequency
\* is not empty, starts at first_ts, stays below last_ts and inside the
\* owned table's range, and neither assertion fails.
AutoGridInRange ==
  (AutoCall /\ ~IsNone(Before.sampling_freq_nominal)) =>
    /\ ~IsNone(last.grid)
    /\ LET grid == Val(last.grid)
           keys == TableBefore.index
       IN /\ Len(grid) >= 1
          /\ grid[1] = Before.first_ts
          /\ \A i \in 1..Len(grid) :
               /\ Before.first_ts <= grid[i] /\ grid[i] < Before.last_ts
               /\ Len(keys) >= 1
               /\ keys[1] <= grid[i] /\ grid[i] <= keys[Len(keys)]
    /\ last.err \notin {"IndexError", "AssertionError"}

CropWithoutBoundsIsIdentity ==
  (last.op = "crop" /\ IsNone(last.tmin) /\ IsNone(last.tmax)) =>
    /\ last.err = "ok"
    /\ heap[Val(last.ret)] = TableBefore
    /\ Owned = TableBefore
    /\ Derived(self) = Derived(Before)

\* C9: the table the stream owns is held by nobody else: neither the table
\* the caller passed to the constructor nor the table a call returned is it.
OwnedTableNotShared ==
  Constructed => self.data \notin (OptSet(arg) \cup OptSet(last.ret))

-----------------------------------------------------------------------------
(* The generated grid *)

GridFreq == Val(gridIn).f

GridDiffs ==
  LET g == Val(gridOut)
  IN {g[i + 1] - g[i] : i \in 1..(Len(g) - 1)}

-----------------------------------------------------------------------------
(* Resampling in place on the nominal grid *)

OnGrid(keys, step) ==
  \A i \in 1..(Len(keys) - 1) : keys[i + 1] - keys[i] = step

AutoInplace == AutoCall /\ last.inplace

NominalStep == StepSize(Val(Before.sampling_freq_nominal))

\* a successful call keeps first_ts, lowers last_ts and, for a table on the
\* nominal grid, drops exactly one row; a grid of one timestamp makes the
\* attribute computation fail on the duration 0
AutoGridShrinks ==
  AutoInplace =>
    /\ last.err = "ok" =>
         /\ self.first_ts = Before.first_ts
         /\ self.last_ts < Before.last_ts
         /\ Len(Val(last.grid)) >= 2
         /\ OnGrid(TableBefore.index, NominalStep) =>
              Len(Owned.index) = Len(TableBefore.index) - 1
    /\ (/\ ~IsNone(last.grid)
        /\ Len(Val(last.grid)) = 1
        /\ Len(TableBefore.index) >= 2) =>
         /\ last.err = "ZeroDivisionError"
         /\ self.duration = Seconds(0)

SingleElementGridFails ==
  /\ AutoInplace
  /\ ~IsNone(last.grid)
  /\ Len(Val(last.grid)) = 1
  /\ last.err = "ZeroDivisionError"

\* C10: every successful in-place resampling on the nominal grid keeps
\* first_ts and lowers last_ts, dropping exactly one row of a table that
\* lies on the grid, and resampling again and again leads to a call whose
\* grid has one timestamp and whose attribute computation fails.
AutoGridRunsDown ==
  /\ []AutoGridShrinks
  /\ (Constructed /\ ~failed) ~> SingleElementGridFails

\* a table on the nominal grid has lost exactly its last row
AutoGridRunsDownWitness ==
  /\ AutoInplace /\ last.err = "ok"
  /\ Len(TableBefore.index) >= 3
  /\ OnGrid(TableBefore.index, NominalStep)
  /\ Owned.index = SubSeq(TableBefore.index, 1, Len(TableBefore.index) - 1)

====
